---- MODULE Spec2Model ----
(***************************************************************************)
(* Model of the Edge TTS integration layer: the EdgeTTS engine and the     *)
(* batch processor of main.py, and the HTTP service of tts_api.py.         *)
(*                                                                         *)
(* JSON values are strings; a key that is absent from a request object is  *)
(* the value Missing, and dict.get(key, default) is the operator Get.      *)
(* External collaborators (synthesis service, translation service, shell   *)
(* playback, the asyncio runtime) are inputs: each call's outcome is drawn  *)
(* from the outcomes the collaborator can produce.                         *)
(***************************************************************************)
EXTENDS Integers, Sequences, FiniteSets, TLC

VARIABLES
    \* ---- environment
    ctxRunning,   \* a scheduler is already running on the thread calling speak
    platform,     \* <<os.name, platform.system()>>
    setters,      \* edge_tts.Communicate offers set_rate / set_volume
    \* ---- process_json_input (CLI path)
    readable,     \* open()/json.load() of the batch file succeed
    batch,        \* data.get("requests", [])
    idx,          \* requests consumed by the for loop
    cliPc,        \* "start" | "loop" | "returned"
    ret,          \* return value of process_json_input: "none" | "true" | "false"
    tts,          \* the EdgeTTS instance of process_json_input: voice, rate, volume
    attempts,     \* synthesis calls issued, in order
    files,        \* audio files written in the working directory
    played,       \* play_audio calls, in order, with what each did
    speakLog,     \* speak calls, in order: stubbed pipeline outcome and result
    \* ---- HTTP service
    hpc,          \* per handler: "absent" | "new" | "read" | "save" | "done"
    upload,       \* per handler: the uploaded body, parsed
    firstOnly,    \* per handler: the return_first_only form field
    hidx,         \* per handler: index of the request whose synthesis is in flight
    pending,      \* per handler: the synthesis call in flight
    outputFiles,  \* per handler: output_files
    synthLog,     \* per handler: indices of the requests synthesis was invoked for
    hplayed,      \* per handler: files handed to play_audio
    resp,         \* per handler: the response
    tempDirs,     \* temporary directories that exist
    madeTemp,     \* per handler: mkdtemp was executed
    tts_engine,   \* the global EdgeTTS instance: voice, rate, volume
    outDir        \* files in OUTPUT_DIR

envVars == <<ctxRunning, platform, setters>>
cliVars == <<readable, batch, idx, cliPc, ret, tts, attempts, files, played, speakLog>>
httpVars == <<hpc, upload, firstOnly, hidx, pending, outputFiles, synthLog, hplayed,
              resp, tempDirs, madeTemp, tts_engine, outDir>>
vars == <<envVars, cliVars, httpVars>>

\* ------------------------------------------------------------------ bounds
MaxBatch == 2
MaxUpload == 3
MaxConcBatch == 1
NumHandlers == 2

\* ------------------------------------------------------------- JSON values
Missing == "_missing_"

\* dict.get(key, default)
Get(req, key, default) == IF req[key] = Missing THEN default ELSE req[key]

\* Python truthiness of a JSON value
Truthy(v) == v \notin {Missing, "", "false"}

DefaultVoice == "hi-IN-MadhurNeural"
DefaultRate == "+0%"
DefaultVolume == "+0%"

\* A slip in the default name: the index itself instead of index + 1.
Mut_DefaultOutputFile(i) == "output_" \o ToString(i) \o ".mp3"

\* f"output_{i+1}.mp3", i the 0-based index of enumerate()
DefaultOutputFile(i) == "output_" \o ToString(i + 1) \o ".mp3"

\* ------------------------------------------------------------------ EdgeTTS
\* EdgeTTS.__init__
NewEngine == [voice |-> DefaultVoice, rate |-> DefaultRate, volume |-> DefaultVolume]

\* A caller that forgets set_voice.
Mut_Configure(eng, voice, rate, volume) ==
    [eng EXCEPT !.rate = rate, !.volume = volume]

\* set_voice; set_rate; set_volume, as both callers issue them
Configure(eng, voice, rate, volume) ==
    [eng EXCEPT !.voice = voice, !.rate = rate, !.volume = volume]

\* The opaque translation service: text in, Hindi text out.
Hindi(text) == IF text = "hello" THEN "namaste" ELSE "anuvad"

\* A translate_text that loses the text when the service raises.
Mut_translate_text(text, trRaises) == IF trRaises THEN "" ELSE Hindi(text)

\* translate_text: the service's result, or the input when the service raises
translate_text(text, trRaises) == IF trRaises THEN text ELSE Hindi(text)

\* speak_async, first step: the text handed to _generate_speech
SpokenText(text, translate_to_hindi, trRaises) ==
    IF Truthy(translate_to_hindi) THEN translate_text(text, trRaises) ELSE text

\* _generate_speech up to the save call: the communicator is created with
\* self.voice; self.rate and self.volume reach it only through the setters,
\* when the installed edge_tts offers them (else the service's defaults stay).
ServiceDefault == "+0%"
Communicate(eng, text, output_file, hasSetters) ==
    [text |-> text, voice |-> eng.voice,
     rate |-> IF hasSetters THEN eng.rate ELSE ServiceDefault,
     volume |-> IF hasSetters THEN eng.volume ELSE ServiceDefault,
     file |-> output_file]

NoCall == [text |-> "", voice |-> "", rate |-> "", volume |-> "", file |-> ""]

\* play_audio: what it does on platform p when the shell command raises
\* (sysRaises) and when webbrowser.open raises (wbRaises): the command run,
\* whether webbrowser.open was tried (fallback), and the value returned.
\* Both handlers return, so there is no outcome in which play_audio raises.
Supported(p) == p[1] = "nt" \/ p[1] = "posix"
PlayCommand(p) ==
    IF p[1] = "nt" THEN "start"
    ELSE IF p[1] = "posix" /\ p[2] = "Darwin" THEN "afplay"
    ELSE IF p[1] = "posix" THEN "aplay"
    ELSE "none"
\* A play_audio that gives up when the shell command raises.
Mut_play_audio(p, file_path, sysRaises, wbRaises) ==
    [file |-> file_path, command |-> PlayCommand(p), fallback |-> FALSE,
     result |-> IF Supported(p) /\ ~sysRaises THEN "true" ELSE "false"]

play_audio(p, file_path, sysRaises, wbRaises) ==
    IF Supported(p)
    THEN IF ~sysRaises
         THEN [file |-> file_path, command |-> PlayCommand(p),
               fallback |-> FALSE, result |-> "true"]
         ELSE [file |-> file_path, command |-> PlayCommand(p),
               fallback |-> TRUE, result |-> IF wbRaises THEN "false" ELSE "true"]
    ELSE [file |-> file_path, command |-> "none",
          fallback |-> FALSE, result |-> "false"]

\* ------------------------------------------------- speak: the sync bridge
\* Error messages of the runtime, as word sequences.
MsgThisLoopRunning == <<"This", "event", "loop", "is", "already", "running">>
MsgOtherLoopRunning ==
    <<"Cannot", "run", "the", "event", "loop", "while", "another", "loop", "is", "running">>
NoError == <<>>
AlreadyRunning == <<"already", "running">>

\* needle in msg
Contains(msg, needle) ==
    \E i \in 1..(Len(msg) - Len(needle) + 1) :
        SubSeq(msg, i, i + Len(needle) - 1) = needle

\* loop.run_until_complete on the loop speak has just created: the runtime
\* refuses when that very loop is running (it never is: it is new) or when
\* another loop is running on the calling thread.
run_until_complete(newLoopRunning, otherLoopRunning) ==
    IF newLoopRunning THEN MsgThisLoopRunning
    ELSE IF otherLoopRunning THEN MsgOtherLoopRunning
    ELSE NoError

\* speak: result of the bridge for a pipeline whose outcome is `outcome`
\* ("true"/"false"). "raise" is a RuntimeError reaching the caller.
\* how: "direct" (own loop), "thread" (worker thread), "raise".
speak(running, outcome) ==
    LET err == run_until_complete(FALSE, running)
    IN IF err = NoError THEN [how |-> "direct", result |-> outcome]
       ELSE IF Contains(err, AlreadyRunning)
            THEN [how |-> "thread", result |-> outcome]
            ELSE [how |-> "raise", result |-> "raise"]

\* ------------------------------------------ process_json_input (CLI path)
Platforms == {<<"nt", "Windows">>, <<"posix", "Darwin">>, <<"posix", "Linux">>,
              <<"java", "Java">>}

\* An element of "requests": a JSON object with these keys (Missing: absent), or,
\* with object = FALSE, a JSON value that is no object (a number, a string).
Request(text, voice, rate, volume, translate, output_file) ==
    [object |-> TRUE, text |-> text, voice |-> voice, rate |-> rate, volume |-> volume,
     translate_to_hindi |-> translate, output_file |-> output_file]
NotAnObject ==
    [object |-> FALSE, text |-> Missing, voice |-> Missing, rate |-> Missing,
     volume |-> Missing, translate_to_hindi |-> Missing, output_file |-> Missing]

\* Request objects of the batch files the CLI model reads.
CliRequests ==
    {Request(t, Missing, Missing, Missing, tr, f) :
        t \in {Missing, "", "hello"}, tr \in {Missing, "true"},
        f \in {Missing, "output_2.mp3"}}

SeqsUpTo(S, n) == UNION {[1..k -> S] : k \in 0..n}

HttpIdle ==
    /\ hpc = [h \in 1..NumHandlers |-> "absent"]
    /\ upload = [h \in 1..NumHandlers |-> [kind |-> "none", requests |-> <<>>]]
    /\ firstOnly = [h \in 1..NumHandlers |-> FALSE]
    /\ hidx = [h \in 1..NumHandlers |-> 0]
    /\ pending = [h \in 1..NumHandlers |-> NoCall]
    /\ outputFiles = [h \in 1..NumHandlers |-> <<>>]
    /\ synthLog = [h \in 1..NumHandlers |-> <<>>]
    /\ hplayed = [h \in 1..NumHandlers |-> <<>>]
    /\ resp = [h \in 1..NumHandlers |-> [type |-> "none", why |-> "", files |-> <<>>]]
    /\ tempDirs = {}
    /\ madeTemp = [h \in 1..NumHandlers |-> FALSE]
    /\ tts_engine = NewEngine
    /\ outDir = {}

CliIdle ==
    /\ readable = TRUE
    /\ batch = <<>>
    /\ idx = 0
    /\ cliPc = "start"
    /\ ret = "none"
    /\ tts = NewEngine
    /\ attempts = <<>>
    /\ files = {}
    /\ played = <<>>
    /\ speakLog = <<>>

InitCLI ==
    /\ ctxRunning \in BOOLEAN
    /\ platform \in Platforms
    /\ setters \in BOOLEAN
    /\ readable \in BOOLEAN
    /\ batch \in IF readable THEN SeqsUpTo(CliRequests, MaxBatch) ELSE {<<>>}
    /\ idx = 0
    /\ cliPc = "start"
    /\ ret = "none"
    /\ tts = NewEngine
    /\ attempts = <<>>
    /\ files = {}
    /\ played = <<>>
    /\ speakLog = <<>>
    /\ HttpIdle

\* open + json.load; a failure is caught by the outer handler: return False
ReadBatch ==
    /\ cliPc = "start"
    /\ cliPc' = IF readable THEN "loop" ELSE "returned"
    /\ ret' = IF readable THEN ret ELSE "false"
    /\ tts' = NewEngine
    /\ UNCHANGED <<readable, batch, idx, attempts, files, played, speakLog>>
    /\ UNCHANGED <<envVars, httpVars>>

\* One iteration of the for loop: defaults, skip of an empty text, configuration,
\* tts.speak (the whole pipeline, or the error the bridge lets through, which the
\* outer handler turns into return False).
ProcessRequest ==
    /\ cliPc = "loop"
    /\ idx < Len(batch)
    /\ LET request == batch[idx + 1]
           text == Get(request, "text", "")
           voice == Get(request, "voice", DefaultVoice)
           rate == Get(request, "rate", DefaultRate)
           volume == Get(request, "volume", DefaultVolume)
           translate_to_hindi == Get(request, "translate_to_hindi", "false")
           output_file == Get(request, "output_file", DefaultOutputFile(idx))
       IN IF ~Truthy(text)
          THEN /\ idx' = idx + 1
               /\ UNCHANGED <<cliPc, ret, tts, attempts, files, played, speakLog>>
          ELSE \E trRaises \in BOOLEAN, synthOk \in BOOLEAN,
                  sysRaises \in BOOLEAN, wbRaises \in BOOLEAN :
               LET eng == Configure(tts, voice, rate, volume)
                   spoken == SpokenText(text, translate_to_hindi, trRaises)
                   call == Communicate(eng, spoken, output_file, setters)
                   outcome == IF synthOk THEN "true" ELSE "false"
                   r == speak(ctxRunning, outcome)
               IN /\ tts' = eng
                  /\ speakLog' = Append(speakLog,
                        [index |-> idx, running |-> ctxRunning,
                         outcome |-> outcome, how |-> r.how, result |-> r.result])
                  /\ IF r.how = "raise"
                     THEN /\ cliPc' = "returned"
                          /\ ret' = "false"
                          /\ UNCHANGED <<idx, attempts, files, played>>
                     ELSE /\ attempts' = Append(attempts,
                                [index |-> idx, source |-> text,
                                 translated |-> Truthy(translate_to_hindi) /\ ~trRaises,
                                 trRaised |-> Truthy(translate_to_hindi) /\ trRaises,
                                 call |-> call, ok |-> synthOk])
                          /\ files' = IF synthOk THEN files \cup {output_file} ELSE files
                          /\ played' = IF synthOk
                                       THEN Append(played,
                                               [index |-> idx, sysRaises |-> sysRaises,
                                                wbRaises |-> wbRaises] @@
                                               play_audio(platform, output_file,
                                                          sysRaises, wbRaises))
                                       ELSE played
                          /\ idx' = idx + 1
                          /\ UNCHANGED <<cliPc, ret>>
    /\ UNCHANGED <<readable, batch>>
    /\ UNCHANGED <<envVars, httpVars>>

\* the loop ran out: return True
ReturnTrue ==
    /\ cliPc = "loop"
    /\ idx = Len(batch)
    /\ cliPc' = "returned"
    /\ ret' = "true"
    /\ UNCHANGED <<readable, batch, idx, tts, attempts, files, played, speakLog>>
    /\ UNCHANGED <<envVars, httpVars>>

NextCLI == ReadBatch \/ ProcessRequest \/ ReturnTrue

SpecCLI == InitCLI /\ [][NextCLI]_vars

\* ------------------------------------------------------------ HTTP service
Handlers == 1..NumHandlers

OUTPUT_DIR == "tts_output"
\* os.path.join(OUTPUT_DIR, name) and os.path.basename, for plain file names
PathJoin(dir, name) == <<dir, name>>
Basename(path) == path[Len(path)]

\* A handler that ignores return_first_only when it picks the requests.
Mut_RequestsToProcess(requests, return_first_only) == requests

\* data["requests"][:1] if return_first_only else data["requests"]
RequestsToProcess(requests, return_first_only) ==
    IF return_first_only
    THEN (IF Len(requests) = 0 THEN <<>> ELSE <<requests[1]>>)
    ELSE requests

\* The for loop between two synthesis calls: the 0-based index of the next
\* element from i on that is not skipped for an empty text, or -1 at the end.
NextIndex(R, i) ==
    LET J == {j \in i..(Len(R) - 1) :
                 ~R[j + 1].object \/ Truthy(Get(R[j + 1], "text", ""))}
    IN IF J = {} THEN -1 ELSE CHOOSE j \in J : \A k \in J : j <= k

ErrorResponse(why) == [type |-> "error", why |-> why, files |-> <<>>]

\* A response without the single-file branch.
Mut_Respond(output_files, return_first_only) ==
    IF Len(output_files) = 0 THEN ErrorResponse("none generated")
    ELSE IF return_first_only
         THEN [type |-> "file", why |-> "first", files |-> <<output_files[1]>>]
    ELSE [type |-> "summary", why |-> "multiple",
          files |-> [k \in 1..Len(output_files) |-> Basename(output_files[k])]]

\* The response chosen after the loop
Respond(output_files, return_first_only) ==
    IF Len(output_files) = 0 THEN ErrorResponse("none generated")
    ELSE IF return_first_only
         THEN [type |-> "file", why |-> "first", files |-> <<output_files[1]>>]
    ELSE IF Len(output_files) = 1
         THEN [type |-> "file", why |-> "single", files |-> <<output_files[1]>>]
    ELSE [type |-> "summary", why |-> "multiple",
          files |-> [k \in 1..Len(output_files) |-> Basename(output_files[k])]]

\* A handler whose cleanup is missing.
Mut_Cleanup(dirs, h) == dirs

\* finally: shutil.rmtree(temp_dir, ignore_errors=True)
Cleanup(dirs, h) == dirs \ {h}

\* Leaving process_tts_json with a response: every return and the except
\* clause pass through the finally clause.
Exit(h, response) ==
    /\ hpc' = [hpc EXCEPT ![h] = "done"]
    /\ resp' = [resp EXCEPT ![h] = response]
    /\ tempDirs' = Cleanup(tempDirs, h)
    /\ pending' = [pending EXCEPT ![h] = NoCall]

\* generate_speech up to its suspension in communicate.save: configuration of
\* the shared engine, translation, creation of the communicator.
Issue(h, j, text, voice, rate, volume, output_path, translate_to_hindi, log) ==
    \E trRaises \in BOOLEAN :
        LET eng == Configure(tts_engine, voice, rate, volume)
            spoken == SpokenText(text, translate_to_hindi, trRaises)
        IN /\ tts_engine' = eng
           /\ pending' = [pending EXCEPT
                             ![h] = Communicate(eng, spoken, output_path, setters)]
           /\ synthLog' = [synthLog EXCEPT
                              ![h] = Append(log, [index |-> j, ok |-> "pending"])]
           /\ hidx' = [hidx EXCEPT ![h] = j]
           /\ hpc' = [hpc EXCEPT ![h] = "save"]

\* The loop of process_tts_json from index i on, with output_files = outs, up to
\* the next suspension (a synthesis call) or to the response.
Advance(h, i, outs, log) ==
    LET R == RequestsToProcess(upload[h].requests, firstOnly[h])
        j == NextIndex(R, i)
    IN /\ outputFiles' = [outputFiles EXCEPT ![h] = outs]
       /\ IF j = -1
          THEN /\ Exit(h, Respond(outs, firstOnly[h]))
               /\ synthLog' = [synthLog EXCEPT ![h] = log]
               /\ UNCHANGED <<hidx, tts_engine>>
          ELSE IF ~R[j + 1].object
          THEN /\ Exit(h, ErrorResponse("exception"))
               /\ synthLog' = [synthLog EXCEPT ![h] = log]
               /\ UNCHANGED <<hidx, tts_engine>>
          ELSE LET req == R[j + 1]
               IN /\ Issue(h, j, Get(req, "text", ""),
                           Get(req, "voice", DefaultVoice),
                           Get(req, "rate", DefaultRate),
                           Get(req, "volume", DefaultVolume),
                           PathJoin(OUTPUT_DIR,
                                    Get(req, "output_file", DefaultOutputFile(j))),
                           Get(req, "translate_to_hindi", "false"), log)
                  /\ UNCHANGED <<resp, tempDirs>>

\* A request arrives. POST /tts: mkdtemp, then suspension in file.read().
\* GET /test: generate_speech with the fixed sentence, up to its suspension.
Arrive(h) ==
    /\ hpc[h] = "new"
    /\ IF upload[h].kind = "test"
       THEN /\ Issue(h, 0, "This is a test of the Edge TTS API.", "en-US-GuyNeural",
                     "+0%", "+0%", PathJoin(OUTPUT_DIR, "test_output.mp3"), "false",
                     synthLog[h])
            /\ UNCHANGED <<tempDirs, madeTemp, resp>>
       ELSE /\ tempDirs' = tempDirs \cup {h}
            /\ madeTemp' = [madeTemp EXCEPT ![h] = TRUE]
            /\ hpc' = [hpc EXCEPT ![h] = "read"]
            /\ UNCHANGED <<hidx, pending, synthLog, resp, tts_engine>>
    /\ UNCHANGED <<upload, firstOnly, outputFiles, hplayed, outDir>>
    /\ UNCHANGED <<envVars, cliVars>>

\* file.read() returns: the upload is written, decoded, parsed and validated,
\* and the loop runs to its first synthesis call or to the response.
AfterRead(h) ==
    /\ hpc[h] = "read"
    /\ IF upload[h].kind = "not_utf8"
       THEN /\ Exit(h, ErrorResponse("exception"))
            /\ UNCHANGED <<hidx, synthLog, tts_engine, outputFiles>>
       ELSE IF upload[h].kind = "invalid_json"
       THEN /\ Exit(h, ErrorResponse("invalid json"))
            /\ UNCHANGED <<hidx, synthLog, tts_engine, outputFiles>>
       ELSE IF upload[h].kind \in {"no_requests", "requests_not_list"}
       THEN /\ Exit(h, ErrorResponse("expected requests array"))
            /\ UNCHANGED <<hidx, synthLog, tts_engine, outputFiles>>
       ELSE IF Len(upload[h].requests) = 0
       THEN /\ Exit(h, ErrorResponse("no requests"))
            /\ UNCHANGED <<hidx, synthLog, tts_engine, outputFiles>>
       ELSE Advance(h, 0, <<>>, synthLog[h])
    /\ UNCHANGED <<upload, firstOnly, hplayed, madeTemp, outDir>>
    /\ UNCHANGED <<envVars, cliVars>>

\* communicate.save() returns or raises: the rest of _generate_speech, of
\* speak_async (which plays the file after a success) and of generate_speech,
\* then the caller: the loop of POST /tts, or the response of GET /test.
AfterSave(h) ==
    /\ hpc[h] = "save"
    /\ \E synthOk \in BOOLEAN, sysRaises \in BOOLEAN, wbRaises \in BOOLEAN :
        LET call == pending[h]
            log == [synthLog[h] EXCEPT
                       ![Len(synthLog[h])].ok = IF synthOk THEN "true" ELSE "false"]
            outs == IF synthOk THEN Append(outputFiles[h], call.file)
                    ELSE outputFiles[h]
        IN /\ outDir' = IF synthOk THEN outDir \cup {call.file} ELSE outDir
           /\ hplayed' = IF synthOk
                         THEN [hplayed EXCEPT ![h] = Append(@,
                                  play_audio(platform, call.file, sysRaises, wbRaises))]
                         ELSE hplayed
           /\ IF upload[h].kind = "test"
              THEN /\ Exit(h, [type |-> IF synthOk THEN "test success" ELSE "test error",
                               why |-> "test", files |-> <<>>])
                   /\ synthLog' = [synthLog EXCEPT ![h] = log]
                   /\ UNCHANGED <<hidx, tts_engine, outputFiles>>
              ELSE Advance(h, hidx[h] + 1, outs, log)
    /\ UNCHANGED <<upload, firstOnly, madeTemp>>
    /\ UNCHANGED <<envVars, cliVars>>

NextHTTP == \E h \in Handlers : Arrive(h) \/ AfterRead(h) \/ AfterSave(h)

\* Request objects of the uploads the HTTP model receives.
HttpRequests ==
    {Request(t, Missing, Missing, Missing, tr, f) :
        t \in {"", "hello"}, tr \in {Missing, "true"}, f \in {Missing, "a.mp3"}}
    \cup {NotAnObject}

Upload(kind, requests) == [kind |-> kind, requests |-> requests]

HttpUploads ==
    {Upload(k, <<>>) : k \in {"not_utf8", "invalid_json", "no_requests",
                              "requests_not_list", "test"}}
    \cup {Upload("list", r) : r \in SeqsUpTo(HttpRequests, MaxUpload)}

\* One request at a time: handler 1 serves an upload, the others stay absent.
InitHTTP ==
    /\ ctxRunning = TRUE
    /\ platform \in {<<"posix", "Linux">>, <<"java", "Java">>}
    /\ setters \in BOOLEAN
    /\ CliIdle
    /\ hpc = [h \in Handlers |-> IF h = 1 THEN "new" ELSE "absent"]
    /\ \E u \in HttpUploads, f \in BOOLEAN :
         /\ upload = [h \in Handlers |-> IF h = 1 THEN u ELSE Upload("none", <<>>)]
         /\ firstOnly = [h \in Handlers |-> h = 1 /\ f]
    /\ hidx = [h \in Handlers |-> 0]
    /\ pending = [h \in Handlers |-> NoCall]
    /\ outputFiles = [h \in Handlers |-> <<>>]
    /\ synthLog = [h \in Handlers |-> <<>>]
    /\ hplayed = [h \in Handlers |-> <<>>]
    /\ resp = [h \in Handlers |-> [type |-> "none", why |-> "", files |-> <<>>]]
    /\ tempDirs = {}
    /\ madeTemp = [h \in Handlers |-> FALSE]
    /\ tts_engine = NewEngine
    /\ outDir = {}

SpecHTTP == InitHTTP /\ [][NextHTTP]_vars

\* Requests of the concurrent uploads: two configurations, texts present.
ConcRequests ==
    {Request("hello", Missing, Missing, Missing, Missing, Missing),
     Request("hello", "en-US-GuyNeural", "+10%", "+20%", Missing, Missing)}

\* Every handler serves a POST /tts upload on the one event loop.
InitConc ==
    /\ ctxRunning = TRUE
    /\ platform = <<"java", "Java">>
    /\ setters \in BOOLEAN
    /\ CliIdle
    /\ hpc = [h \in Handlers |-> "new"]
    /\ upload \in [Handlers -> {Upload("list", r) :
                                   r \in SeqsUpTo(ConcRequests, MaxConcBatch) \ {<<>>}}]
    /\ firstOnly = [h \in Handlers |-> FALSE]
    /\ hidx = [h \in Handlers |-> 0]
    /\ pending = [h \in Handlers |-> NoCall]
    /\ outputFiles = [h \in Handlers |-> <<>>]
    /\ synthLog = [h \in Handlers |-> <<>>]
    /\ hplayed = [h \in Handlers |-> <<>>]
    /\ resp = [h \in Handlers |-> [type |-> "none", why |-> "", files |-> <<>>]]
    /\ tempDirs = {}
    /\ madeTemp = [h \in Handlers |-> FALSE]
    /\ tts_engine = NewEngine
    /\ outDir = {}

SpecConc == InitConc /\ [][NextHTTP]_vars

\* =================================================================== claims
\* What the requests ask for, read off the batch itself.
HasText(req) == req.object /\ req.text # Missing /\ req.text # ""
NonEmptyIdx(reqs) == {i \in 0..(Len(reqs) - 1) : HasText(reqs[i + 1])}
ExpectedDefaultNames ==
    <<"output_1.mp3", "output_2.mp3", "output_3.mp3", "output_4.mp3", "output_5.mp3">>
ExpectedName(reqs, i) ==
    IF reqs[i + 1].output_file = Missing THEN ExpectedDefaultNames[i + 1]
    ELSE reqs[i + 1].output_file
Increasing(q) == \A k \in 1..(Len(q) - 1) : q[k] < q[k + 1]
AttemptIdx == [k \in 1..Len(attempts) |-> attempts[k].index]
AllSucceeded == \A k \in 1..Len(attempts) : attempts[k].ok
NamesDistinct(reqs) ==
    \A i, j \in NonEmptyIdx(reqs) : i # j => ExpectedName(reqs, i) # ExpectedName(reqs, j)
PlainRunDone == cliPc = "returned" /\ readable /\ ~ctxRunning

C2_Original ==
    \A k \in 1..Len(speakLog) :
        /\ speakLog[k].result = speakLog[k].outcome
        /\ speakLog[k].running => speakLog[k].how = "thread"

\* C3: once the batch file was read, process_json_input returns true and has
\* gone through every request, whatever happened to the single requests
\* (synthesis failure, playback failure, an error raised by the bridge).
C3_Original ==
    (cliPc = "returned" /\ readable) => (ret = "true" /\ idx = Len(batch))

\* C7 (as stated): play_audio falls back to the generic handler both when the
\* platform command raises and when the platform is unsupported, and returns
\* false only if that fallback fails.
C7_Original ==
    \A k \in 1..Len(played) :
        /\ played[k].result \in {"true", "false"}
        /\ (~Supported(platform) \/ played[k].sysRaises) => played[k].fallback
        /\ played[k].result = "false" => (played[k].fallback /\ played[k].wbRaises)

\* C7 (amended): play_audio always returns a boolean; when the platform command
\* raises it tries the generic handler and returns false only if that raises
\* too; when the command does not raise it returns true; on an unsupported
\* platform it returns false without trying the generic handler.
C7_Amended ==
    \A k \in 1..Len(played) :
        /\ played[k].result \in {"true", "false"}
        /\ (Supported(platform) /\ played[k].sysRaises) =>
              /\ played[k].fallback
              /\ played[k].result = (IF played[k].wbRaises THEN "false" ELSE "true")
        /\ (Supported(platform) /\ ~played[k].sysRaises) =>
              (~played[k].fallback /\ played[k].result = "true")
        /\ ~Supported(platform) =>
              (~played[k].fallback /\ played[k].result = "false")

\* The platform command raised and the generic handler opened the file.
C7_Witness ==
    \E k \in 1..Len(played) :
        /\ played[k].sysRaises
        /\ ~played[k].wbRaises
        /\ played[k].fallback
        /\ played[k].result = "true"

\* C8: whenever the translation service raises for a request with the translate
\* flag set, the request is synthesized all the same, from its original text.
C8_FailOpen ==
    /\ \A k \in 1..Len(attempts) :
          attempts[k].trRaised =>
              attempts[k].call.text = batch[attempts[k].index + 1].text
    /\ PlainRunDone =>
          \A i \in NonEmptyIdx(batch) : \E k \in 1..Len(attempts) : attempts[k].index = i

\* A flagged request whose translation raised was synthesized and written.
C8_Witness ==
    \E k \in 1..Len(attempts) :
        /\ attempts[k].trRaised
        /\ batch[attempts[k].index + 1].translate_to_hindi = "true"
        /\ attempts[k].ok
        /\ attempts[k].call.file \in files

\* ----------------------------------------------------------- HTTP claims
Served(h) == hpc[h] = "done" /\ madeTemp[h]

\* C4: a POST /tts handler that created its temporary directory has removed it
\* when it exits, whatever the exit; the directory exists only while the
\* handler runs.
C4_TempDirRemoved ==
    /\ \A h \in Handlers : Served(h) => h \notin tempDirs
    /\ \A h \in tempDirs : hpc[h] \in {"read", "save"} /\ madeTemp[h]

\* A handler left through the except clause after a generation had succeeded.
C4_Witness ==
    \E h \in Handlers :
        /\ Served(h)
        /\ resp[h].why = "exception"
        /\ Len(outputFiles[h]) >= 1
        /\ h \notin tempDirs

\* A served upload of two request objects with return_first_only set.
FirstOnlyOfTwo(h) ==
    /\ Served(h)
    /\ upload[h].kind = "list"
    /\ firstOnly[h]
    /\ Len(upload[h].requests) = 2
    /\ upload[h].requests[1].object
    /\ upload[h].requests[2].object

\* C5 (as stated): return_first_only with a batch of two invokes synthesis for
\* the first request only and answers with the audio file of the first request.
C5_Original ==
    \A h \in Handlers :
        FirstOnlyOfTwo(h) =>
            /\ Len(synthLog[h]) = 1
            /\ synthLog[h][1].index = 0
            /\ resp[h].type = "file"
            /\ resp[h].files = <<<<"tts_output", ExpectedName(upload[h].requests, 0)>>>>

\* C5 (amended): return_first_only with a batch of two never processes the
\* second request; synthesis is invoked for the first request exactly when it
\* has a text; the response is one audio file, the one generated for the first
\* request, when that synthesis succeeds, and a JSON error otherwise.
C5_Amended ==
    \A h \in Handlers :
        FirstOnlyOfTwo(h) =>
            /\ \A k \in 1..Len(synthLog[h]) : synthLog[h][k].index = 0
            /\ Len(synthLog[h]) = (IF HasText(upload[h].requests[1]) THEN 1 ELSE 0)
            /\ IF Len(synthLog[h]) = 1 /\ synthLog[h][1].ok = "true"
               THEN /\ resp[h].type = "file"
                    /\ resp[h].files =
                          <<<<"tts_output", ExpectedName(upload[h].requests, 0)>>>>
               ELSE resp[h].type = "error"

\* Both requests have a text; only the first was synthesized and returned.
C5_Witness ==
    \E h \in Handlers :
        /\ FirstOnlyOfTwo(h)
        /\ HasText(upload[h].requests[1])
        /\ HasText(upload[h].requests[2])
        /\ resp[h].type = "file"
        /\ Len(synthLog[h]) = 1

\* The successful generations of a handler, in the order they were made, as the
\* names the batch asked for.
OkLog(h) == SelectSeq(synthLog[h], LAMBDA e : e.ok = "true")
OkNames(h) ==
    [k \in 1..Len(OkLog(h)) |-> ExpectedName(upload[h].requests, OkLog(h)[k].index)]
BadShape(h) == upload[h].kind # "list" \/ upload[h].requests = <<>>
Processed(h) ==
    IF firstOnly[h] THEN <<upload[h].requests[1]>> ELSE upload[h].requests
ByGenerations(h) ==
    IF Len(OkLog(h)) = 0 THEN resp[h].type = "error"
    ELSE IF Len(OkLog(h)) = 1
         THEN /\ resp[h].type = "file"
              /\ resp[h].files = <<<<"tts_output", OkNames(h)[1]>>>>
    ELSE /\ resp[h].type = "summary"
         /\ resp[h].files = OkNames(h)

\* C6 (as stated): the response of POST /tts is an error without any synthesis
\* call for a malformed or empty upload, and otherwise follows the number of
\* successful generations: error for none, the audio file for one, the summary
\* of the generated files in batch order for two or more.
C6_Original ==
    \A h \in Handlers :
        Served(h) =>
            IF BadShape(h)
            THEN resp[h].type = "error" /\ synthLog[h] = <<>>
            ELSE ByGenerations(h)

\* C6 (amended): as stated when every processed element of "requests" is an
\* object; when one is not, the response is a JSON error whatever succeeded
\* before it.
C6_Amended ==
    \A h \in Handlers :
        Served(h) =>
            IF BadShape(h)
            THEN resp[h].type = "error" /\ synthLog[h] = <<>>
            ELSE IF \E k \in 1..Len(Processed(h)) : ~Processed(h)[k].object
            THEN resp[h].type = "error"
            ELSE ByGenerations(h)

\* Three requests, one failed generation, a summary of the other two.
C6_Witness ==
    \E h \in Handlers :
        /\ Served(h)
        /\ Len(synthLog[h]) = 3
        /\ Len(OkLog(h)) = 2
        /\ resp[h].type = "summary"
        /\ Len(resp[h].files) = 2

\* C9: no HTTP endpoint ever calls play_audio; on the CLI path play_audio is
\* called for a request only after its synthesis succeeded.
C9_Original ==
    /\ \A h \in Handlers : hplayed[h] = <<>>
    /\ \A k \in 1..Len(played) :
          \E a \in 1..Len(attempts) :
              attempts[a].index = played[k].index /\ attempts[a].ok

InFlight(h) == hpc[h] = "save" /\ upload[h].kind = "list"
Asked(h) == upload[h].requests[hidx[h] + 1]
AskedVoice(h) == IF Asked(h).voice = Missing THEN "hi-IN-MadhurNeural" ELSE Asked(h).voice
AskedRate(h) == IF Asked(h).rate = Missing THEN "+0%" ELSE Asked(h).rate
AskedVolume(h) == IF Asked(h).volume = Missing THEN "+0%" ELSE Asked(h).volume

\* C10 (as stated): with handlers interleaved on the one event loop, every
\* synthesis call in flight carries the voice, rate and volume of the request
\* that issued it.
C10_Original ==
    \A h \in Handlers :
        InFlight(h) =>
            /\ pending[h].voice = AskedVoice(h)
            /\ pending[h].rate = AskedRate(h)
            /\ pending[h].volume = AskedVolume(h)

\* C10 (amended): every synthesis call in flight carries the voice of the
\* request that issued it, and its rate and volume whenever the communicator
\* offers set_rate and set_volume (without them every call runs at the service's
\* defaults), whatever the other handlers wrote to the shared engine.
C10_Amended ==
    \A h \in Handlers :
        InFlight(h) =>
            /\ pending[h].voice = AskedVoice(h)
            /\ setters => /\ pending[h].rate = AskedRate(h)
                          /\ pending[h].volume = AskedVolume(h)
            /\ ~setters => /\ pending[h].rate = "+0%"
                           /\ pending[h].volume = "+0%"

\* Two calls in flight with different voices, the shared engine holding the
\* configuration of the later one.
C10_Witness ==
    \E g, h \in Handlers :
        /\ InFlight(g) /\ InFlight(h)
        /\ pending[g].voice # pending[h].voice
        /\ tts_engine.voice = pending[h].voice
        /\ tts_engine.voice # AskedVoice(g)
        /\ setters
        /\ pending[g].rate # pending[h].rate

====
